---- MODULE Spec2Model ----
(***************************************************************************)
(* The interceptor chain of Axios.prototype.request (lib/core/Axios.js):   *)
(* chain assembly from the two interceptor registries, the choice between  *)
(* the suspended (promise chain) and the direct (synchronous loop)         *)
(* strategy, and the execution of the chain around dispatchRequest.        *)
(*                                                                         *)
(* One request is followed at a time; a further request() may be issued    *)
(* once the previous one has settled or has raised.  Registry operations   *)
(* (use / eject) may happen at any point, also while a request is in       *)
(* flight and between two iterations of the direct loop (a handler may     *)
(* register or eject interceptors).                                        *)
(*                                                                         *)
(* Values (configurations, responses, errors) are traces: the sequence of  *)
(* the handler applications that produced them from the resolved           *)
(* configuration, so that A(B(base)) and B(A(base)) differ.                *)
(*                                                                         *)
(* A handler called by a promise reaction returns, raises, or returns a    *)
(* promise that settles later; a handler called by the direct loop returns *)
(* or raises (it was registered as synchronous).  The transport call       *)
(* raises or returns a promise that resolves or rejects later.  Every      *)
(* registered pair has an onFulfilled; its onRejected may be absent.       *)
(***************************************************************************)
EXTENDS Integers, Sequences, FiniteSets, TLC

\* ------------------------------------------------------------------ bounds
MaxUse == 2          \* entries ever registered, both registries together
MaxEject == 1        \* ejected entries (tombstones), both registries together

\* ------------------------------------------------------------ value domain
Methods == {"get", "post"}
RunWhens == {"absent", "isPost"}
\* The options (synchronous, runWhen) response interceptors are registered with.
ResponseOptions == {<<FALSE, "absent">>, <<TRUE, "isPost">>}

\* A handler reference: which registry, which entry, which of the pair.
Handler(reg, id, role) == [reg |-> reg, id |-> id, role |-> role]
\* An absent handler (undefined in the source).
Undefined == Handler("none", 0, "undefined")
\* The transport call.
dispatchRequest == Handler("transport", 0, "fulfilled")
\* The TypeError the engine raises when undefined is called as a function.
TypeError == <<[h |-> Undefined, out |-> "throw"]>>

\* The resolved configuration a request starts from, as a value.
Base == <<>>
\* The value handler h returns when applied to v.
Returned(h, v) == Append(v, [h |-> h, out |-> "ret"])
\* The value handler h raises (or rejects with) when applied to v.
Raised(h, v) == Append(v, [h |-> h, out |-> "throw"])

\* An ejected slot of a registry (handlers[id] = null).
Null == [fulfilled |-> Undefined, rejected |-> Undefined,
         synchronous |-> FALSE, runWhen |-> "null"]

\* The entry InterceptorManager.use stores.
Interceptor(reg, id, hasRejected, synchronous, runWhen) ==
    [fulfilled |-> Handler(reg, id, "fulfilled"),
     rejected |-> IF hasRejected THEN Handler(reg, id, "rejected") ELSE Undefined,
     synchronous |-> synchronous,
     runWhen |-> runWhen]

VARIABLES
    requestHandlers,     \* this.interceptors.request: entries in registration order
    responseHandlers,    \* this.interceptors.response
    pc,                  \* where the request is: idle, preLoop, dispatch, returned, thrown
    config,              \* the resolved configuration (its method)
    synchronousRequestInterceptors,
    requestInterceptorChain,   \* flat: fulfilled, rejected, fulfilled, rejected, ...
    responseInterceptorChain,
    newConfig,           \* the direct loop's current configuration
    promise,             \* the promise at the head of the reactions not yet run
    reactions,           \* the (onFulfilled, onRejected) pairs attached with then
    log,                 \* the handler invocations of this request, in order
    snapshot,            \* the two registries as they were when request() was called
    built,               \* the two sequences as assembled for this request
    excluded             \* pre-send entries an earlier request's runWhen excluded

vars == <<requestHandlers, responseHandlers, pc, config,
          synchronousRequestInterceptors, requestInterceptorChain,
          responseInterceptorChain, newConfig, promise, reactions, log,
          snapshot, built, excluded>>

regVars == <<requestHandlers, responseHandlers>>
reqVars == <<pc, config, synchronousRequestInterceptors, requestInterceptorChain,
             responseInterceptorChain, newConfig, promise, reactions, log,
             snapshot, built, excluded>>

\* ---------------------------------------------------------------- promises
NoPromise == [status |-> "none", value |-> <<>>, by |-> Undefined]
Fulfilled(v) == [status |-> "fulfilled", value |-> v, by |-> Undefined]
Rejected(v) == [status |-> "rejected", value |-> v, by |-> Undefined]
\* A promise waiting for what handler h, called with v, will produce.
Pending(h, v) == [status |-> "pending", value |-> v, by |-> h]

\* The request's returned promise has settled: no reaction is left to run.
Settled == pc = "returned" /\ reactions = <<>> /\ promise.status \in {"fulfilled", "rejected"}

\* ------------------------------------------------------- registry (use/eject)
Tombstones(handlers) == Cardinality({i \in 1..Len(handlers) : handlers[i] = Null})

\* interceptors.request.use(fulfilled, rejected, {synchronous, runWhen})
UseRequest(hasRejected, synchronous, runWhen) ==
    /\ Len(requestHandlers) + Len(responseHandlers) < MaxUse
    /\ requestHandlers' = Append(requestHandlers,
           Interceptor("request", Len(requestHandlers) + 1, hasRejected, synchronous, runWhen))
    /\ UNCHANGED <<responseHandlers, reqVars>>

\* interceptors.response.use(fulfilled, rejected, options)
UseResponse(hasRejected, synchronous, runWhen) ==
    /\ Len(requestHandlers) + Len(responseHandlers) < MaxUse
    /\ responseHandlers' = Append(responseHandlers,
           Interceptor("response", Len(responseHandlers) + 1, hasRejected, synchronous, runWhen))
    /\ UNCHANGED <<requestHandlers, reqVars>>

\* interceptors.request.eject(id)
EjectRequest(id) ==
    /\ id \in 1..Len(requestHandlers)
    /\ requestHandlers[id] # Null
    /\ Tombstones(requestHandlers) + Tombstones(responseHandlers) < MaxEject
    /\ requestHandlers' = [requestHandlers EXCEPT ![id] = Null]
    /\ UNCHANGED <<responseHandlers, reqVars>>

\* interceptors.response.eject(id)
EjectResponse(id) ==
    /\ id \in 1..Len(responseHandlers)
    /\ responseHandlers[id] # Null
    /\ Tombstones(requestHandlers) + Tombstones(responseHandlers) < MaxEject
    /\ responseHandlers' = [responseHandlers EXCEPT ![id] = Null]
    /\ UNCHANGED <<requestHandlers, reqVars>>

\* ------------------------------------------------------------ chain assembly
\* interceptor.runWhen(config)
RunWhen(runWhen, cfg) == IF runWhen = "isPost" THEN cfg.method = "post" ELSE TRUE

\* A slip: runWhen is never consulted.
NeverSkipped(interceptor, cfg) == FALSE

\* typeof interceptor.runWhen === 'function' && interceptor.runWhen(config) === false
Skipped(interceptor, cfg) ==
    interceptor.runWhen # "absent" /\ RunWhen(interceptor.runWhen, cfg) = FALSE

\* A slip: the pair is appended, as for the response chain.
UnshiftAsPush(chain, interceptor) == chain \o <<interceptor.fulfilled, interceptor.rejected>>

\* requestInterceptorChain.unshift(interceptor.fulfilled, interceptor.rejected)
Unshift(chain, interceptor) == <<interceptor.fulfilled, interceptor.rejected>> \o chain

\* A slip: an entry with an activation predicate is left out.
PushUnlessRunWhen(chain, interceptor) ==
    IF interceptor.runWhen = "absent"
    THEN chain \o <<interceptor.fulfilled, interceptor.rejected>>
    ELSE chain

\* responseInterceptorChain.push(interceptor.fulfilled, interceptor.rejected)
Push(chain, interceptor) == chain \o <<interceptor.fulfilled, interceptor.rejected>>

\* A slip: the flag accumulated so far is dropped.
LastSynchronous(flag, interceptor) == interceptor.synchronous

\* synchronousRequestInterceptors && interceptor.synchronous
AndSynchronous(flag, interceptor) == flag /\ interceptor.synchronous

\* unshiftRequestInterceptors over the live entries, in registration order
RECURSIVE RequestInterceptorChain(_, _)
RequestInterceptorChain(handlers, cfg) ==
    IF handlers = <<>> THEN <<>>
    ELSE LET n == Len(handlers)
             interceptor == handlers[n]
             earlier == RequestInterceptorChain(SubSeq(handlers, 1, n - 1), cfg)
         IN IF interceptor = Null \/ Skipped(interceptor, cfg)
            THEN earlier
            ELSE Unshift(earlier, interceptor)

\* A slip: the flag is never cleared.
AlwaysSynchronous(handlers, cfg) == TRUE

\* synchronousRequestInterceptors after the forEach
RECURSIVE SynchronousRequestInterceptors(_, _)
SynchronousRequestInterceptors(handlers, cfg) ==
    IF handlers = <<>> THEN TRUE
    ELSE LET n == Len(handlers)
             interceptor == handlers[n]
             earlier == SynchronousRequestInterceptors(SubSeq(handlers, 1, n - 1), cfg)
         IN IF interceptor = Null \/ Skipped(interceptor, cfg)
            THEN earlier
            ELSE AndSynchronous(earlier, interceptor)

\* pushResponseInterceptors over the live entries, in registration order
RECURSIVE ResponseInterceptorChain(_)
ResponseInterceptorChain(handlers) ==
    IF handlers = <<>> THEN <<>>
    ELSE LET n == Len(handlers)
             interceptor == handlers[n]
             earlier == ResponseInterceptorChain(SubSeq(handlers, 1, n - 1))
         IN IF interceptor = Null
            THEN earlier
            ELSE Push(earlier, interceptor)

\* A slip: the transport call is also its step's failure handler.
ChainDispatchCatches(pre, post) == pre \o <<dispatchRequest, dispatchRequest>>

\* The suspended strategy's chain: [dispatchRequest, undefined] with the
\* pre-send chain unshifted onto it.  chain.concat(responseInterceptorChain)
\* returns a new array that the source drops, so chain itself is unchanged.
Chain(pre, post) == pre \o <<dispatchRequest, Undefined>>

\* A slip: one element is shifted per step, so the pairs overlap.
RECURSIVE ThenOverlapping(_)
ThenOverlapping(flat) ==
    IF Len(flat) < 2 THEN <<>>
    ELSE <<[onFulfilled |-> flat[1], onRejected |-> flat[2]]>>
            \o ThenOverlapping(Tail(flat))

\* while (chain.length) promise = promise.then(chain.shift(), chain.shift())
RECURSIVE Then(_)
Then(flat) ==
    IF Len(flat) < 2 THEN <<>>
    ELSE <<[onFulfilled |-> flat[1], onRejected |-> flat[2]]>> \o Then(SubSeq(flat, 3, Len(flat)))

\* The live pre-send entries the request's runWhen excludes.
ExcludedBy(handlers, cfg) ==
    {i \in 1..Len(handlers) : handlers[i] # Null /\ Skipped(handlers[i], cfg)}

\* --------------------------------------------------------------- request()
\* request(config) up to the strategy branch; the suspended strategy builds
\* its whole promise chain here and returns it.
Request(method) ==
    /\ pc \in {"idle", "thrown"} \/ Settled
    /\ LET cfg == [method |-> method]
           pre == RequestInterceptorChain(requestHandlers, cfg)
           post == ResponseInterceptorChain(responseHandlers)
           sync == SynchronousRequestInterceptors(requestHandlers, cfg)
       IN /\ config' = cfg
          /\ synchronousRequestInterceptors' = sync
          /\ requestInterceptorChain' = pre
          /\ responseInterceptorChain' = post
          /\ built' = [pre |-> pre, post |-> post]
          /\ snapshot' = [request |-> requestHandlers, response |-> responseHandlers]
          /\ excluded' = excluded \cup ExcludedBy(requestHandlers, cfg)
          /\ newConfig' = Base
          /\ log' = <<>>
          /\ IF ~sync
             THEN /\ promise' = Fulfilled(Base)
                  /\ reactions' = Then(Chain(pre, post))
                  /\ pc' = "returned"
             ELSE /\ promise' = NoPromise
                  /\ reactions' = <<>>
                  /\ pc' = IF pre = <<>> THEN "dispatch" ELSE "preLoop"
    /\ UNCHANGED regVars

\* A log entry: handler h was called with arg and returned ("ret"), raised
\* ("throw") or returned a promise that is still pending ("suspend"); the
\* transport call's entry stays "suspend" when it returned a promise.
Invoke(h, arg, out) == [h |-> h, arg |-> arg, out |-> out]

\* A slip: every handler is given the resolved configuration.
NextConfigFromBase(onFulfilled, cfg) == Returned(onFulfilled, Base)

\* newConfig = onFulfilled(newConfig)
NextConfig(onFulfilled, cfg) == Returned(onFulfilled, cfg)

\* A slip: the handler is looked up in the registry when its turn comes, so
\* that an entry ejected in the meantime is passed over.
CallbackLive(reaction, status) ==
    LET h == IF status = "fulfilled" THEN reaction.onFulfilled ELSE reaction.onRejected
    IN IF \/ h.reg = "request" /\ requestHandlers[h.id] = Null
          \/ h.reg = "response" /\ responseHandlers[h.id] = Null
       THEN Undefined
       ELSE h

\* A slip: the success handler is taken whatever the settlement.
CallbackFulfilledOnly(reaction, status) == reaction.onFulfilled

\* The handler of a then(onFulfilled, onRejected) that a settlement selects.
Callback(reaction, status) ==
    IF status = "fulfilled" THEN reaction.onFulfilled ELSE reaction.onRejected

\* One iteration of the direct strategy's pre-send loop.
PreStep(out, rejectedOut) ==
    /\ pc = "preLoop"
    /\ LET onFulfilled == requestInterceptorChain[1]
           onRejected == requestInterceptorChain[2]
           rest == SubSeq(requestInterceptorChain, 3, Len(requestInterceptorChain))
           error == Raised(onFulfilled, newConfig)
       IN /\ requestInterceptorChain' = rest
          /\ IF out = "ret"
             THEN /\ rejectedOut = "ret"
                  /\ newConfig' = NextConfig(onFulfilled, newConfig)
                  /\ log' = Append(log, Invoke(onFulfilled, newConfig, "ret"))
                  /\ pc' = IF rest = <<>> THEN "dispatch" ELSE "preLoop"
                  /\ promise' = promise
             ELSE /\ newConfig' = newConfig
                  /\ IF onRejected = Undefined
                     THEN \* undefined(error): a TypeError leaves request()
                          /\ rejectedOut = "ret"
                          /\ log' = Append(log, Invoke(onFulfilled, newConfig, "throw"))
                          /\ pc' = "thrown"
                          /\ promise' = [NoPromise EXCEPT !.value = TypeError]
                     ELSE /\ log' = log \o <<Invoke(onFulfilled, newConfig, "throw"),
                                             Invoke(onRejected, error, rejectedOut)>>
                          /\ IF rejectedOut = "ret"
                             THEN \* break
                                  /\ pc' = "dispatch"
                                  /\ promise' = promise
                             ELSE \* onRejected raises out of request()
                                  /\ pc' = "thrown"
                                  /\ promise' = [NoPromise EXCEPT
                                                   !.value = Raised(onRejected, error)]
    /\ UNCHANGED <<regVars, config, synchronousRequestInterceptors,
                   responseInterceptorChain, reactions, snapshot, built,
                   excluded>>

\* The direct strategy's transport call, the post-receive fold and the return.
DispatchDirect(out) ==
    /\ pc = "dispatch"
    /\ log' = Append(log, Invoke(dispatchRequest, newConfig, out))
    /\ pc' = "returned"
    /\ IF out = "throw"
       THEN \* return Promise.reject(error)
            /\ promise' = Rejected(Raised(dispatchRequest, newConfig))
            /\ reactions' = <<>>
            /\ responseInterceptorChain' = responseInterceptorChain
       ELSE /\ promise' = Pending(dispatchRequest, newConfig)
            /\ reactions' = Then(responseInterceptorChain)
            /\ responseInterceptorChain' = <<>>
    /\ UNCHANGED <<regVars, config, synchronousRequestInterceptors,
                   requestInterceptorChain, newConfig, snapshot, built,
                   excluded>>

\* A pending promise (the transport's, or one a handler returned) settles.
\* The log entry of a handler that suspended then tells how its call ended.
SettlePending(out) ==
    /\ pc = "returned"
    /\ promise.status = "pending"
    /\ promise' = IF out = "resolve"
                  THEN Fulfilled(Returned(promise.by, promise.value))
                  ELSE Rejected(Raised(promise.by, promise.value))
    /\ log' = IF promise.by = dispatchRequest
              THEN log
              ELSE [log EXCEPT ![Len(log)].out = IF out = "resolve" THEN "ret" ELSE "throw"]
    /\ UNCHANGED <<regVars, pc, config, synchronousRequestInterceptors,
                   requestInterceptorChain, responseInterceptorChain, newConfig,
                   reactions, snapshot, built, excluded>>

\* A slip: a reaction runs as soon as there is a promise, settled or not.
ReadyWhilePending(p) == p.status # "none"

\* The callbacks of p.then(...) are run once p has settled.
Ready(p) == p.status \in {"fulfilled", "rejected"}

\* The reaction job of one then(onFulfilled, onRejected).
Reaction(out) ==
    /\ pc = "returned"
    /\ Ready(promise)
    /\ reactions # <<>>
    /\ LET handler == Callback(Head(reactions), promise.status)
           arg == promise.value
       IN /\ reactions' = Tail(reactions)
          /\ IF handler = Undefined
             THEN \* no handler: the settlement passes through
                  /\ out = "ret"
                  /\ promise' = promise
                  /\ log' = log
             ELSE /\ log' = Append(log, Invoke(handler, arg, out))
                  /\ handler = dispatchRequest => out # "ret"
                  /\ promise' = CASE out = "ret" -> Fulfilled(Returned(handler, arg))
                                  [] out = "throw" -> Rejected(Raised(handler, arg))
                                  [] OTHER -> Pending(handler, arg)
    /\ UNCHANGED <<regVars, pc, config, synchronousRequestInterceptors,
                   requestInterceptorChain, responseInterceptorChain, newConfig,
                   snapshot, built, excluded>>

\* ------------------------------------------------ the two strategies as runs
\* The same code as the actions above, run to the end for given behaviours:
\* oc[h] tells whether handler h returns ("ret") or raises ("throw") when it is
\* called, and tr whether the transport call raises ("throw") or returns a
\* promise that resolves or rejects.  Handlers here do not suspend.
Transports == {"resolve", "reject", "throw"}

\* The settlement chain of then-reactions, run from a settled promise.
RECURSIVE Fold(_, _, _, _, _, _)
Fold(pairs, status, value, oc, tr, lg) ==
    IF pairs = <<>> THEN [log |-> lg, outcome |-> status, value |-> value]
    ELSE LET handler == Callback(Head(pairs), status)
         IN IF handler = Undefined
            THEN Fold(Tail(pairs), status, value, oc, tr, lg)
            ELSE IF handler = dispatchRequest
            THEN IF tr = "resolve"
                 THEN Fold(Tail(pairs), "fulfilled", Returned(handler, value), oc, tr,
                           Append(lg, Invoke(handler, value, "suspend")))
                 ELSE Fold(Tail(pairs), "rejected", Raised(handler, value), oc, tr,
                           Append(lg, Invoke(handler, value,
                                             IF tr = "throw" THEN "throw" ELSE "suspend")))
            ELSE IF oc[handler] = "ret"
            THEN Fold(Tail(pairs), "fulfilled", Returned(handler, value), oc, tr,
                      Append(lg, Invoke(handler, value, "ret")))
            ELSE Fold(Tail(pairs), "rejected", Raised(handler, value), oc, tr,
                      Append(lg, Invoke(handler, value, "throw")))

\* The suspended strategy, from Promise.resolve(config) to the returned promise.
SuspendedRun(pre, post, oc, tr) ==
    Fold(Then(Chain(pre, post)), "fulfilled", Base, oc, tr, <<>>)

\* The direct strategy's pre-send loop.
RECURSIVE DirectLoop(_, _, _, _)
DirectLoop(chain, cfg, oc, lg) ==
    IF chain = <<>> THEN [log |-> lg, outcome |-> "dispatch", value |-> cfg]
    ELSE LET onFulfilled == chain[1]
             onRejected == chain[2]
             error == Raised(onFulfilled, cfg)
             lg1 == Append(lg, Invoke(onFulfilled, cfg, oc[onFulfilled]))
         IN IF oc[onFulfilled] = "ret"
            THEN DirectLoop(SubSeq(chain, 3, Len(chain)), NextConfig(onFulfilled, cfg), oc, lg1)
            ELSE IF onRejected = Undefined
            THEN [log |-> lg1, outcome |-> "thrown", value |-> TypeError]
            ELSE IF oc[onRejected] = "ret"
            THEN [log |-> Append(lg1, Invoke(onRejected, error, "ret")),
                  outcome |-> "dispatch", value |-> cfg]
            ELSE [log |-> Append(lg1, Invoke(onRejected, error, "throw")),
                  outcome |-> "thrown", value |-> Raised(onRejected, error)]

\* The direct strategy: the loop, the transport call, the post-receive fold.
DirectRun(pre, post, oc, tr) ==
    LET loop == DirectLoop(pre, Base, oc, <<>>)
        cfg == loop.value
    IN IF loop.outcome = "thrown" THEN loop
       ELSE IF tr = "throw"
       THEN [log |-> Append(loop.log, Invoke(dispatchRequest, cfg, "throw")),
             outcome |-> "rejected", value |-> Raised(dispatchRequest, cfg)]
       ELSE Fold(Then(post),
                 IF tr = "resolve" THEN "fulfilled" ELSE "rejected",
                 IF tr = "resolve" THEN Returned(dispatchRequest, cfg)
                                   ELSE Raised(dispatchRequest, cfg),
                 oc, tr, Append(loop.log, Invoke(dispatchRequest, cfg, "suspend")))

\* The handlers of the request's two sequences, and their possible behaviours.
BuiltHandlers ==
    ({built.pre[i] : i \in 1..Len(built.pre)} \cup {built.post[i] : i \in 1..Len(built.post)})
        \ {Undefined}
Behaviours == [BuiltHandlers -> {"ret", "throw"}]

\* What the machine has done with the request, in the form of a run's result.
Observed ==
    [log |-> log,
     outcome |-> IF pc = "thrown" THEN "thrown" ELSE promise.status,
     value |-> promise.value]

\* The runs above are the machine's: a request that is over ended as the run
\* of its strategy does for some behaviour of its handlers and of the transport.
RunsAreTheMachines ==
    (Settled \/ pc = "thrown") =>
        \E oc \in Behaviours, tr \in Transports :
            Observed = IF synchronousRequestInterceptors
                       THEN DirectRun(built.pre, built.post, oc, tr)
                       ELSE SuspendedRun(built.pre, built.post, oc, tr)

\* -------------------------------------------------------------- the machine
Init ==
    /\ requestHandlers = <<>>
    /\ responseHandlers = <<>>
    /\ pc = "idle"
    /\ config = [method |-> "get"]
    /\ synchronousRequestInterceptors = TRUE
    /\ requestInterceptorChain = <<>>
    /\ responseInterceptorChain = <<>>
    /\ newConfig = Base
    /\ promise = NoPromise
    /\ reactions = <<>>
    /\ log = <<>>
    /\ snapshot = [request |-> <<>>, response |-> <<>>]
    /\ built = [pre |-> <<>>, post |-> <<>>]
    /\ excluded = {}

Next ==
    \/ \E r \in BOOLEAN, s \in BOOLEAN, w \in RunWhens : UseRequest(r, s, w)
    \/ \E r \in BOOLEAN, o \in ResponseOptions : UseResponse(r, o[1], o[2])
    \/ \E id \in 1..MaxUse : EjectRequest(id)
    \/ \E id \in 1..MaxUse : EjectResponse(id)
    \/ \E m \in Methods : Request(m)
    \/ \E o \in {"ret", "throw"}, ro \in {"ret", "throw"} : PreStep(o, ro)
    \/ \E o \in {"suspend", "throw"} : DispatchDirect(o)
    \/ \E o \in {"resolve", "reject"} : SettlePending(o)
    \/ \E o \in {"ret", "throw", "suspend"} : Reaction(o)

Spec == Init /\ [][Next]_vars

\* ------------------------------------------------------------------ claims
\* What the claims speak of, stated from the registries as they were when
\* request() was called (snapshot) and from the log, not from the assembly.
LiveIds(handlers) == {i \in 1..Len(handlers) : handlers[i] # Null}

Activated(interceptor, cfg) ==
    \/ interceptor.runWhen = "absent"
    \/ interceptor.runWhen = "isPost" /\ cfg.method = "post"

ActivatedIds == {i \in LiveIds(snapshot.request) : Activated(snapshot.request[i], config)}
PostIds == LiveIds(snapshot.response)

Ascending(S) ==
    CHOOSE s \in [1..Cardinality(S) -> S] : \A i, j \in 1..Cardinality(S) : i < j => s[i] < s[j]
Descending(S) ==
    CHOOSE s \in [1..Cardinality(S) -> S] : \A i, j \in 1..Cardinality(S) : i < j => s[i] > s[j]

\* Activated pre-send success handlers, last registered first.
ExpectedPreOrder ==
    [k \in 1..Cardinality(ActivatedIds) |->
        Handler("request", Descending(ActivatedIds)[k], "fulfilled")]
\* Post-receive success handlers in registration order.
ExpectedPostOrder ==
    [k \in 1..Cardinality(PostIds) |-> Handler("response", Ascending(PostIds)[k], "fulfilled")]

LogHandlers == [i \in 1..Len(log) |-> log[i].h]
InSeq(x, seq) == \E i \in 1..Len(seq) : seq[i] = x
Invoked(h) == InSeq(h, LogHandlers)
DirectStrategy == pc # "idle" /\ synchronousRequestInterceptors
SuspendedStrategy == pc # "idle" /\ ~synchronousRequestInterceptors
AllActivatedSynchronous == \A i \in ActivatedIds : snapshot.request[i].synchronous

\* The request has settled with a value and no handler or transport failed.
NothingFailed ==
    /\ Settled
    /\ promise.status = "fulfilled"
    /\ \A i \in 1..Len(log) : log[i].out # "throw" /\ log[i].h.role # "rejected"

NoPredicates == \A i \in LiveIds(snapshot.request) : snapshot.request[i].runWhen = "absent"

\* A step that is a call of request().
RequestIssued == (pc = "idle" /\ pc' # "idle") \/ (log # <<>> /\ log' = <<>>)

\* C1: in the direct strategy, with no activation predicates and nothing
\* failing, the handlers run in the order: pre-send success handlers in
\* reverse registration order, the transport call, post-receive success
\* handlers in registration order.
C1_DirectOrder ==
    (DirectStrategy /\ NothingFailed /\ NoPredicates) =>
        LogHandlers = ExpectedPreOrder \o <<dispatchRequest>> \o ExpectedPostOrder

C1_Witness ==
    /\ DirectStrategy /\ NothingFailed /\ NoPredicates
    /\ Cardinality(ActivatedIds) >= 2

\* C2: the request takes the direct strategy exactly when every activated
\* pre-send interceptor was registered with synchronous = true (so also when
\* none is activated); one activated entry with synchronous = false forces the
\* suspended strategy.  The direct strategy is the one that passes through the
\* pre-send loop or the direct transport call; the suspended strategy returns
\* its promise before any handler has run.
C2_SynchronousIff ==
    pc # "idle" =>
        /\ synchronousRequestInterceptors <=> AllActivatedSynchronous
        /\ pc \in {"preLoop", "dispatch", "thrown"} => AllActivatedSynchronous
        /\ (pc = "returned" /\ log = <<>>) => ~AllActivatedSynchronous

C2_Witness ==
    /\ pc = "returned" /\ log = <<>>
    /\ \E i, j \in ActivatedIds :
          snapshot.request[i].synchronous /\ ~snapshot.request[j].synchronous

\* C3: a pre-send entry whose runWhen is false for the request's configuration
\* gives the request neither handler nor its synchronous field, an activated
\* one gives both; request() leaves the registries as they are, so the entry
\* is there for a later request.
C3_Excluded ==
    pc # "idle" =>
        /\ \A i \in LiveIds(snapshot.request) :
              LET e == snapshot.request[i]
              IN IF Activated(e, config)
                 THEN \E k \in 1..Len(built.pre) - 1 :
                         built.pre[k] = e.fulfilled /\ built.pre[k + 1] = e.rejected
                 ELSE \A h \in {Handler("request", i, "fulfilled"),
                                Handler("request", i, "rejected")} :
                         /\ ~InSeq(h, built.pre)
                         /\ ~InSeq(h, requestInterceptorChain)
                         /\ ~Invoked(h)
                         /\ \A k \in 1..Len(reactions) :
                               reactions[k].onFulfilled # h /\ reactions[k].onRejected # h
        /\ AllActivatedSynchronous => synchronousRequestInterceptors

C3_ActivationPredicate ==
    []C3_Excluded /\ [][RequestIssued => UNCHANGED regVars]_vars

\* An entry an earlier request excluded has run in this one.
C3_Witness ==
    \E i \in excluded : Invoked(Handler("request", i, "fulfilled"))

\* Log entry k is a pre-send success handler that raised.
PreRaisedAt(k) ==
    log[k].h.reg = "request" /\ log[k].h.role = "fulfilled" /\ log[k].out = "throw"
\* The configuration the last normally completed pre-send handler before
\* entry k returned (the resolved configuration if there is none).
LastGoodConfig(k) == IF k = 1 THEN Base ELSE Returned(log[k - 1].h, log[k - 1].arg)
\* request() is over for its caller: it returned a promise or it raised.
Left == pc \in {"returned", "thrown"}

\* C4: in the direct strategy, once a pre-send onFulfilled has raised, no
\* handler of a remaining pre-send pair runs, and the transport call is
\* invoked with the last configuration a pre-send handler returned.
C4_RaiseStillDispatches ==
    DirectStrategy =>
        \A k \in 1..Len(log) : PreRaisedAt(k) =>
            /\ \A j \in k + 1..Len(log) :
                  log[j].h.reg = "request" => log[j].h.id = log[k].h.id
            /\ Left => \E j \in k + 1..Len(log) :
                          log[j].h = dispatchRequest /\ log[j].arg = LastGoodConfig(k)

\* C5: in the direct strategy, when the onFulfilled of an entry registered
\* without onRejected raises, the transport call is invoked with the
\* configuration that handler was given.
C5_NoRejectedStillDispatches ==
    DirectStrategy =>
        \A k \in 1..Len(log) :
            (PreRaisedAt(k) /\ snapshot.request[log[k].h.id].rejected = Undefined /\ Left) =>
                \E j \in k + 1..Len(log) :
                    log[j].h = dispatchRequest /\ log[j].arg = log[k].arg

\* C6: the request's two sequences are those of the registries as they were
\* when request() was called, whatever is registered or ejected afterwards:
\* every handler it runs is one of them, with nothing failing it runs them
\* all in their order, a registry operation leaves the sequences and the
\* pending reactions as they are, and a call of request() takes the
\* registries as they are at that call.
C6_BuiltFromSnapshot ==
    pc # "idle" =>
        /\ [k \in 1..Len(built.pre) \div 2 |-> built.pre[2 * k - 1]] = ExpectedPreOrder
        /\ [k \in 1..Len(built.post) \div 2 |-> built.post[2 * k - 1]] = ExpectedPostOrder
        /\ \A k \in 1..Len(log) :
              \/ log[k].h = dispatchRequest
              \/ InSeq(log[k].h, built.pre)
              \/ InSeq(log[k].h, built.post)
        /\ NothingFailed =>
              LET n == Len(ExpectedPreOrder)
              IN /\ Len(log) > n
                 /\ SubSeq(LogHandlers, 1, n + 1) = ExpectedPreOrder \o <<dispatchRequest>>
                 /\ DirectStrategy => SubSeq(LogHandlers, n + 2, Len(log)) = ExpectedPostOrder

C6_SnapshotIsolation ==
    /\ []C6_BuiltFromSnapshot
    /\ [][regVars' # regVars =>
            UNCHANGED <<built, requestInterceptorChain, responseInterceptorChain,
                        reactions, log>>]_vars
    /\ [][RequestIssued =>
            snapshot' = [request |-> requestHandlers', response |-> responseHandlers']]_vars

\* A reaction still to run holds a handler whose entry has since been ejected,
\* and an entry registered since the call is in the registry.
C6_Witness ==
    /\ pc = "returned"
    /\ \E k \in 1..Len(reactions) :
          LET h == reactions[k].onFulfilled
          IN \/ h.reg = "request" /\ requestHandlers[h.id] = Null
             \/ h.reg = "response" /\ responseHandlers[h.id] = Null
    /\ Len(requestHandlers) + Len(responseHandlers)
          > Len(snapshot.request) + Len(snapshot.response)

\* C8: request() never raises to its caller.
C8_NeverRaises == pc # "thrown"

\* C9: in the direct strategy, while nothing has failed, every pre-send
\* onFulfilled and then the transport call is given what the handler before it
\* returned (the resolved configuration for the first), so that the transport
\* call gets the activated handlers applied last registered first; and the
\* request of a registry whose activated entries are all synchronous is direct.
C9_ConfigThreading ==
    /\ (pc # "idle" /\ AllActivatedSynchronous) => DirectStrategy
    /\ DirectStrategy =>
          \A k \in 1..Len(log) :
              (/\ \A j \in 1..k - 1 : log[j].out = "ret"
               /\ log[k].h.role = "fulfilled"
               /\ log[k].h.reg \in {"request", "transport"}) =>
                  /\ log[k].arg = LastGoodConfig(k)
                  /\ log[k].h = dispatchRequest =>
                        log[k].arg = [i \in 1..Len(ExpectedPreOrder) |->
                                         [h |-> ExpectedPreOrder[i], out |-> "ret"]]

C9_Witness ==
    /\ DirectStrategy
    /\ Cardinality(ActivatedIds) >= 2
    /\ Len(log) = 3
    /\ log[3].h = dispatchRequest
    /\ log[1].out = "ret" /\ log[2].out = "ret"

\* C10: in the suspended strategy the post-receive pairs are applied, in
\* registration order, to what the transport call settled with: when nothing
\* fails the handlers run are the pre-send ones, the transport call, then every
\* post-receive success handler; and whatever happens, a post-receive pair
\* with both handlers has one of them run once the transport was called.
C10_SuspendedRunsPost ==
    SuspendedStrategy =>
        /\ NothingFailed =>
              LogHandlers = ExpectedPreOrder \o <<dispatchRequest>> \o ExpectedPostOrder
        /\ (Settled /\ Invoked(dispatchRequest)) =>
              \A i \in PostIds :
                  snapshot.response[i].rejected # Undefined =>
                      \/ Invoked(Handler("response", i, "fulfilled"))
                      \/ Invoked(Handler("response", i, "rejected"))

\* C7: for the request's pre-send and post-receive pairs, every behaviour of
\* the handlers and every behaviour of the transport, the direct and the
\* suspended strategy make the same handler calls with the same arguments
\* (the transport call among them) and end with the same value or failure.
C7_StrategiesAgree ==
    pc # "idle" =>
        \A oc \in Behaviours, tr \in Transports :
            DirectRun(built.pre, built.post, oc, tr) =
                SuspendedRun(built.pre, built.post, oc, tr)

\* How many times the transport call was invoked.
Dispatches == Cardinality({k \in 1..Len(log) : log[k].h = dispatchRequest})
\* The request is over: its promise has settled, or request() raised.
Over == Settled \/ pc = "thrown"

\* C11: a request invokes the transport call exactly once, except a
\* direct-strategy request one of whose pre-send failure handlers raised, which
\* invokes it zero times; it is never invoked more than once.
C11_DispatchedOnce ==
    /\ Dispatches <= 1
    /\ Over =>
          \/ Dispatches = 1
          \/ /\ DirectStrategy
             /\ \E k \in 1..Len(log) :
                   /\ log[k].h.reg = "request"
                   /\ log[k].h.role = "rejected"
                   /\ log[k].out = "throw"

\* The first post-receive entry that has a failure handler.
FirstPostRejected ==
    LET S == {i \in PostIds : snapshot.response[i].rejected # Undefined}
    IN CHOOSE i \in S : \A j \in S : i <= j

\* C12: in the direct strategy, when the transport call raises, the failure
\* is folded through the post-receive sequence: the first post-receive
\* failure handler, in registration order, is called with what was raised.
C12_RaiseIsFolded ==
    (DirectStrategy /\ Settled) =>
        \A k \in 1..Len(log) :
            (/\ log[k].h = dispatchRequest
             /\ log[k].out = "throw"
             /\ \E i \in PostIds : snapshot.response[i].rejected # Undefined) =>
                /\ Len(log) > k
                /\ log[k + 1].h = Handler("response", FirstPostRejected, "rejected")
                /\ log[k + 1].arg = Raised(dispatchRequest, log[k].arg)

\* The pairs the request hands to then(), in order, and the place of a
\* handler among them (0 for a handler that is in none of them).
FoldPairs ==
    IF synchronousRequestInterceptors THEN Then(built.post)
    ELSE Then(Chain(built.pre, built.post))
Position(h) ==
    IF \E p \in 1..Len(FoldPairs) : h \in {FoldPairs[p].onFulfilled, FoldPairs[p].onRejected}
    THEN CHOOSE p \in 1..Len(FoldPairs) :
            h \in {FoldPairs[p].onFulfilled, FoldPairs[p].onRejected}
    ELSE 0
\* Log entry k is a call made by the fold: every call of the suspended
\* strategy, the post-receive calls of the direct one.
InFold(k) == synchronousRequestInterceptors => log[k].h.reg = "response"
\* No pair strictly between places p and q has a failure handler.
NoRejectedBetween(p, q) ==
    \A m \in p + 1..q - 1 : FoldPairs[m].onRejected = Undefined

\* C13 as stated: a failure raised by the success handler of a step of the
\* fold is offered to that step's own failure handler, if it has one.
C13_OwnFailureHandler ==
    pc # "idle" =>
        \A k \in 1..Len(log) :
            (/\ InFold(k)
             /\ log[k].h.reg \in {"request", "response"}
             /\ log[k].h.role = "fulfilled"
             /\ log[k].out = "throw"
             /\ FoldPairs[Position(log[k].h)].onRejected # Undefined
             /\ (Len(log) > k \/ Settled)) =>
                /\ Len(log) > k
                /\ log[k + 1].h = FoldPairs[Position(log[k].h)].onRejected
                /\ log[k + 1].arg = Raised(log[k].h, log[k].arg)

\* C13, amended: in the fold, what a step's handler returns goes to the next
\* step's success handler; what a step's handler raises (its success handler
\* or its failure handler) goes, unchanged, to the failure handler of the
\* first later step that has one, never to the step's own; and when the
\* promise has settled after a failure, no later step had a failure handler.
C13_FailureRouting ==
    pc # "idle" =>
        /\ \A k \in 2..Len(log) :
              (InFold(k) /\ InFold(k - 1)) =>
                  LET prev == log[k - 1]
                      cur == log[k]
                      p == Position(prev.h)
                      q == Position(cur.h)
                  IN /\ q > p
                     /\ IF cur.h.role = "rejected"
                        THEN /\ prev.out # "ret"
                             /\ cur.arg = Raised(prev.h, prev.arg)
                             /\ cur.h = FoldPairs[q].onRejected
                             /\ NoRejectedBetween(p, q)
                        ELSE /\ prev.out # "throw"
                             /\ cur.arg = Returned(prev.h, prev.arg)
                             /\ cur.h = FoldPairs[q].onFulfilled
                             /\ q = p + 1
        /\ (Settled /\ promise.status = "rejected" /\ InFold(Len(log))) =>
              LET last == log[Len(log)]
              IN /\ promise.value = Raised(last.h, last.arg)
                 /\ NoRejectedBetween(Position(last.h), Len(FoldPairs) + 1)

\* The success handler of a step with a failure handler raised, and the
\* failure went to the failure handler of a later step.
C13_Witness ==
    \E k \in 1..Len(log) - 1 :
        /\ InFold(k)
        /\ log[k].h.reg \in {"request", "response"}
        /\ log[k].h.role = "fulfilled"
        /\ log[k].out = "throw"
        /\ FoldPairs[Position(log[k].h)].onRejected # Undefined
        /\ log[k + 1].h.role = "rejected"
        /\ Position(log[k + 1].h) > Position(log[k].h)

\* C14: in the direct strategy, when a pre-send onFulfilled raises and its
\* onRejected is present and returns a value, the transport call is invoked
\* with the configuration that failure handler returned.
C14_DispatchGetsRecovery ==
    DirectStrategy =>
        \A k \in 1..Len(log) - 1 :
            (/\ PreRaisedAt(k)
             /\ log[k + 1].h = Handler("request", log[k].h.id, "rejected")
             /\ log[k + 1].out = "ret"
             /\ Left) =>
                \E j \in k + 2..Len(log) :
                    /\ log[j].h = dispatchRequest
                    /\ log[j].arg = Returned(log[k + 1].h, log[k + 1].arg)

\* C15: the strategy is decided by the pre-send registry and the
\* configuration alone (it is the direct one exactly when every activated
\* pre-send entry is synchronous, whatever the post-receive registry holds),
\* and the post-receive sequence is every live post-receive entry's pair in
\* registration order, whatever its synchronous field or activation predicate.
C15_PostReceiveNeverDecides ==
    pc # "idle" =>
        /\ synchronousRequestInterceptors = AllActivatedSynchronous
        /\ Len(built.post) = 2 * Cardinality(PostIds)
        /\ \A k \in 1..Cardinality(PostIds) :
              LET e == snapshot.response[Ascending(PostIds)[k]]
              IN built.post[2 * k - 1] = e.fulfilled /\ built.post[2 * k] = e.rejected

\* A post-receive entry whose predicate is false for the configuration and
\* whose synchronous field differs from the strategy taken is in the sequence.
C15_Witness ==
    /\ pc # "idle"
    /\ config.method = "get"
    /\ \E i \in PostIds :
          /\ snapshot.response[i].runWhen = "isPost"
          /\ snapshot.response[i].synchronous # synchronousRequestInterceptors
          /\ InSeq(Handler("response", i, "fulfilled"), built.post)

\* A step at which request() returns its promise to the caller.
Returns == pc' = "returned" /\ (pc # "returned" \/ RequestIssued)
\* Before request() has returned, nothing is scheduled and no post-receive
\* handler has run.
C16_NothingScheduledBeforeReturn ==
    pc \in {"preLoop", "dispatch"} =>
        /\ AllActivatedSynchronous
        /\ promise.status = "none"
        /\ reactions = <<>>
        /\ \A k \in 1..Len(log) : log[k].h.reg = "request"

\* C16: in the direct strategy (every activated pre-send entry synchronous)
\* the pre-send handlers that run and the invocation of the transport call
\* are over when request() returns, nothing having been scheduled before, and
\* no post-receive handler has run by then; afterwards only post-receive
\* handlers run.  In the suspended strategy no handler has run when request()
\* returns.
C16_RunToCompletion ==
    /\ []C16_NothingScheduledBeforeReturn
    /\ [][/\ Returns =>
               IF AllActivatedSynchronous'
               THEN /\ log' # <<>>
                    /\ log'[Len(log')].h = dispatchRequest
                    /\ \A k \in 1..Len(log') - 1 : log'[k].h.reg = "request"
               ELSE log' = <<>>
          /\ (pc = "returned" /\ AllActivatedSynchronous /\ ~RequestIssued) =>
                \A k \in Len(log) + 1..Len(log') : log'[k].h.reg = "response"]_vars

\* A direct-strategy request ran a pre-send handler, returned, and then ran a
\* post-receive handler.
C16_Witness ==
    /\ DirectStrategy
    /\ pc = "returned"
    /\ Len(log) >= 3
    /\ log[1].h.reg = "request"
    /\ \E k \in 2..Len(log) - 1 :
          log[k].h = dispatchRequest /\ log[k + 1].h.reg = "response"

\* Log entry k is a pre-send handler that raised, and no later pre-send step
\* has a failure handler.
Unrecovered(k) ==
    /\ log[k].h.reg = "request"
    /\ log[k].out = "throw"
    /\ NoRejectedBetween(Position(log[k].h), Len(FoldPairs))

\* C18: in the suspended strategy the transport call is invoked only with
\* what the pre-send handler before it returned; after a pre-send handler
\* raised with no failure handler in a later pre-send step, nothing more is
\* invoked, the transport call included, and the request is rejected with
\* that failure.
C18_FailurePassesTransport ==
    SuspendedStrategy =>
        /\ \A k \in 1..Len(log) :
              log[k].h = dispatchRequest =>
                  /\ k > 1
                  /\ log[k - 1].out = "ret"
                  /\ log[k].arg = Returned(log[k - 1].h, log[k - 1].arg)
        /\ \A k \in 1..Len(log) :
              Unrecovered(k) =>
                  /\ k = Len(log)
                  /\ ~Invoked(dispatchRequest)
                  /\ Settled => promise = Rejected(Raised(log[k].h, log[k].arg))

\* The first of two pre-send steps raised, the second has no failure handler,
\* and the request has settled.
C18_Witness ==
    /\ SuspendedStrategy
    /\ Settled
    /\ Len(FoldPairs) >= 3
    /\ Len(log) = 1
    /\ Unrecovered(1)

\* The handlers still to be consumed: the rest of the chain of the pre-send
\* loop while it runs, and the reactions not yet run.
Remaining ==
    (IF pc = "preLoop"
     THEN {requestInterceptorChain[k] : k \in 1..Len(requestInterceptorChain)}
     ELSE {})
        \cup {reactions[k].onFulfilled : k \in 1..Len(reactions)}
        \cup {reactions[k].onRejected : k \in 1..Len(reactions)}

\* C19: within one request no handler is invoked twice, and a handler that
\* was invoked is in no pair that is still to be consumed.
C19_AtMostOnce ==
    pc # "idle" =>
        /\ \A i, j \in 1..Len(log) : i < j => log[i].h # log[j].h
        /\ \A k \in 1..Len(log) : log[k].h \notin Remaining

\* A settled request that ran both handlers of a pre-send pair, the transport
\* call and a post-receive handler.
C19_Witness ==
    /\ pc # "idle"
    /\ Settled
    /\ Len(log) >= 4
    /\ \E k \in 1..Len(log) : log[k].h.role = "rejected"

\* A handler whose call suspended is the last one started, and the promise
\* the next step waits for is the one that call produced.
C17_OneInProgress ==
    pc # "idle" =>
        /\ \A k \in 1..Len(log) :
              (log[k].out = "suspend" /\ log[k].h # dispatchRequest) =>
                  k = Len(log) /\ promise = Pending(log[k].h, log[k].arg)
        /\ promise.status = "pending" =>
              /\ log # <<>>
              /\ promise.by = log[Len(log)].h
              /\ promise.value = log[Len(log)].arg

====
